---- MODULE Spec2Model ----
(***************************************************************************)
(* GateQuest study tracker: the attempt log, the derived DailyProgress     *)
(* aggregate and the streak, as implemented by the two storage backends    *)
(* of the repository:                                                      *)
(*   - LocalStorage (client/src/lib/storage.ts), driven by the dashboard   *)
(*     form through the mock api of client/src/lib/queryClient.ts;         *)
(*   - JsonStorage (server/storage.ts), driven by the express routes of    *)
(*     server/routes.ts.                                                   *)
(* Time is counted in ticks; TicksPerDay ticks make one calendar day, so   *)
(* a Date carries a calendar day and a time of day.                        *)
(***************************************************************************)
EXTENDS Integers, Sequences, FiniteSets, TLC

VARIABLES
    backend,           \* "local" (LocalStorage) or "json" (JsonStorage)
    clock,             \* what new Date() returns
    questionAttempts,  \* gate-ece-question-attempts / question-attempts.json
    dailyProgress,     \* gate-ece-daily-progress / daily-progress.json
    exists,            \* the data files of JsonStorage that exist on disk
    nextId,            \* source of fresh ids (generateId)
    ops,               \* number of operations requested so far
    last,              \* the last operation: its inputs, clock reads, outcome
    pc,                \* position of each in-flight POST handler
    loc,               \* local variables of each in-flight POST handler
    subjects,          \* gate-ece-subjects / subjects.json
    userSettings,      \* gate-ece-user-settings / user-settings.json
    result             \* what the last query returned

vars == <<backend, clock, questionAttempts, dailyProgress, exists, nextId,
          ops, last, pc, loc, subjects, userSettings, result>>

(***************************************************************************)
(* Bounds of the model.                                                    *)
(***************************************************************************)
TicksPerDay == 2
MaxClock == 3
MaxOps == 2
MaxBatch == 2
RaceMaxClock == 2
NumHandlers == 2

(***************************************************************************)
(* Program constants.                                                      *)
(***************************************************************************)
DEMO_USER_ID == "demo-user-id"
OTHER_USER_ID == "other-user-id"
Users == {DEMO_USER_ID, OTHER_USER_ID}

SUBJECTS_FILE == "subjects.json"
QUESTION_ATTEMPTS_FILE == "question-attempts.json"
DAILY_PROGRESS_FILE == "daily-progress.json"
USER_SETTINGS_FILE == "user-settings.json"

\* the seeded catalog: the constant of LocalStorage, and what initializeSubjects
\* of the server creates at startup, subject by subject.  The id of a
\* subject is an opaque string (generateId on the server).
GATE_ECE_SUBJECTS ==
    << [id |-> "s-nss", name |-> "Networks, Signals & Systems", code |-> "NSS"],
       [id |-> "s-ed", name |-> "Electronic Devices", code |-> "ED"],
       [id |-> "s-ac", name |-> "Analog Circuits", code |-> "AC"],
       [id |-> "s-dc", name |-> "Digital Circuits", code |-> "DC"],
       [id |-> "s-cs", name |-> "Control Systems", code |-> "CS"],
       [id |-> "s-com", name |-> "Communications", code |-> "COM"],
       [id |-> "s-em", name |-> "Electromagnetics", code |-> "EM"],
       [id |-> "s-math", name |-> "Engineering Mathematics", code |-> "MATH"] >>

Difficulties == {"Easy", "Medium", "Hard"}

(***************************************************************************)
(* Dates.                                                                  *)
(***************************************************************************)
\* the calendar day of a Date (toDateString / setHours(0,0,0,0))
Day(t) == t \div TicksPerDay

\* startOfDay and endOfDay of JsonStorage: the first and last instant of the day
startOfDay(t) == Day(t) * TicksPerDay
endOfDay(t) == Day(t) * TicksPerDay + (TicksPerDay - 1)

Min(a, b) == IF a <= b THEN a ELSE b

(***************************************************************************)
(* Array helpers (reduce, filter, find, findIndex, stable sort).           *)
(***************************************************************************)
RECURSIVE SumOf(_, _)
SumOf(s, f) ==
    IF s = <<>> THEN 0
    ELSE IF Len(s) = 1 THEN s[1][f]
    ELSE LET half == Len(s) \div 2
         IN SumOf(SubSeq(s, 1, half), f) + SumOf(SubSeq(s, half + 1, Len(s)), f)

\* index of the first matching element, 0 when there is none
\* (findIndex returns -1 there)
\* matching is the set of the indices of the elements that satisfy the test
FindIndex(matching) ==
    IF matching = {} THEN 0
    ELSE CHOOSE i \in matching : \A j \in matching : i <= j

\* Array.prototype.sort with comparator b.date - a.date: descending, stable.
\* The place of an element is the number of the elements that come before it:
\* the greater ones, and the equal ones that stood before it.
SortDesc(s, f) ==
    LET before == [i \in 1..Len(s) |->
                     Cardinality({j \in 1..Len(s) :
                                    \/ s[j][f] > s[i][f]
                                    \/ s[j][f] = s[i][f] /\ j < i})]
    IN [k \in 1..Len(s) |-> s[CHOOSE i \in 1..Len(s) : before[i] = k - 1]]

Ids(s) == {s[i].id : i \in 1..Len(s)}

(***************************************************************************)
(* Request bodies.  The stored numbers are the ones of the scenarios of    *)
(* the specification (attempts of 15 and 20 questions against a target of 30).     *)
(***************************************************************************)
AttemptInput(s, tp, q, c, d, t) ==
    [subjectId |-> s, topic |-> tp, questionsAttempted |-> q,
     correctAnswers |-> c, difficulty |-> d, timeSpent |-> t]

NoInput == AttemptInput("", "", 0, 0, "", 0)

\* bodies that satisfy every field constraint and have correct <= attempted
GoodInputs ==
    { AttemptInput("s-nss", "Filters", 20, 16, "Medium", 40),
      AttemptInput("s-ed", "Zener Diodes", 15, 15, "Easy", 5) }

\* a body with more correct answers than questions attempted
OvershootInputs == { AttemptInput("s-ed", "Zener Diodes", 1, 5, "Easy", 5) }

\* bodies that each break one field constraint
BadInputs ==
    { AttemptInput("s-nss", "Filters", 0, 0, "Medium", 20),
      AttemptInput("s-nss", "Filters", 10, -1, "Medium", 20),
      AttemptInput("s-nss", "Filters", 10, 8, "Medium", 0),
      AttemptInput("s-nss", "Filters", 10, 8, "Extreme", 20),
      AttemptInput("", "Filters", 10, 8, "Medium", 20),
      AttemptInput("s-nss", "", 10, 8, "Medium", 20) }

Inputs == GoodInputs \cup OvershootInputs \cup BadInputs

\* the schema without the constraint on timeSpent
insertQuestionAttemptSchema_NoTimeSpentMin(body) ==
    /\ body.subjectId # ""
    /\ body.topic # ""
    /\ body.questionsAttempted >= 1
    /\ body.correctAnswers >= 0
    /\ body.difficulty \in {"Easy", "Medium", "Hard"}

\* z.object({...}) of shared/schema.ts, used by POST /api/question-attempts
insertQuestionAttemptSchema(body) ==
    /\ body.subjectId # ""
    /\ body.topic # ""
    /\ body.questionsAttempted >= 1
    /\ body.correctAnswers >= 0
    /\ body.difficulty \in {"Easy", "Medium", "Hard"}
    /\ body.timeSpent >= 1

\* z.object({...}) of pages/dashboard.tsx, the resolver of the form
questionAttemptSchema(data) ==
    /\ data.subjectId # ""
    /\ data.topic # ""
    /\ data.questionsAttempted >= 1
    /\ data.correctAnswers >= 0
    /\ data.difficulty \in {"Easy", "Medium", "Hard"}
    /\ data.timeSpent >= 1

\* { id, userId, attemptDate, ...attempt }
NewAttempt(id, userId, attempt, date) ==
    [id |-> id, userId |-> userId, attemptDate |-> date,
     subjectId |-> attempt.subjectId, topic |-> attempt.topic,
     questionsAttempted |-> attempt.questionsAttempted,
     correctAnswers |-> attempt.correctAnswers,
     difficulty |-> attempt.difficulty, timeSpent |-> attempt.timeSpent]

\* InsertDailyProgress
ProgressData(date, tq, tc, tt, ta, sd) ==
    [date |-> date, totalQuestions |-> tq, totalCorrect |-> tc,
     totalTimeSpent |-> tt, targetAchieved |-> ta, streakDay |-> sd]

\* { id, userId, ...progress }
NewProgress(id, userId, p) ==
    [id |-> id, userId |-> userId, date |-> p.date,
     totalQuestions |-> p.totalQuestions, totalCorrect |-> p.totalCorrect,
     totalTimeSpent |-> p.totalTimeSpent, targetAchieved |-> p.targetAchieved,
     streakDay |-> p.streakDay]

(***************************************************************************)
(* LocalStorage (client/src/lib/storage.ts).                               *)
(***************************************************************************)
\* isToday(date): compares with a clock read of its own
isToday(date, now) == Day(date) = Day(now)

\* the date argument is not used by the code: the filter is isToday
LocalStorage_getQuestionAttemptsByDate(attempts, userId, date, now) ==
    LET ofUser(a) == a.userId = userId
        today(a) == isToday(a.attemptDate, now)
    IN SelectSeq(SelectSeq(attempts, ofUser), today)

\* an upsert that replaces the record of the day by one with a new id
LocalStorage_updateDailyProgress_NewId(progressList, userId, progress, freshId) ==
    LET match(p) == p.userId = userId /\ Day(p.date) = Day(progress.date)
        existingIndex == FindIndex({k \in 1..Len(progressList) : match(progressList[k])})
        newProgress == NewProgress(freshId, userId, progress)
    IN IF existingIndex > 0
       THEN [progressList EXCEPT ![existingIndex] = newProgress]
       ELSE Append(progressList, newProgress)

LocalStorage_updateDailyProgress(progressList, userId, progress, freshId) ==
    LET match(p) == p.userId = userId /\ Day(p.date) = Day(progress.date)
        existingIndex == FindIndex({k \in 1..Len(progressList) : match(progressList[k])})
        newProgress ==
            NewProgress(IF existingIndex > 0 THEN progressList[existingIndex].id
                        ELSE freshId, userId, progress)
    IN IF existingIndex > 0
       THEN [progressList EXCEPT ![existingIndex] = newProgress]
       ELSE Append(progressList, newProgress)

\* the aggregate with a target that 30 questions do not reach
LocalStorage_progressForAttempt_Above30(attempts, userId, today, now) ==
    LET todayAttempts == LocalStorage_getQuestionAttemptsByDate(attempts, userId, today, now)
        totalQuestions == SumOf(todayAttempts, "questionsAttempted")
    IN ProgressData(today, totalQuestions,
                    SumOf(todayAttempts, "correctAnswers"),
                    SumOf(todayAttempts, "timeSpent"),
                    totalQuestions > 30, totalQuestions > 30)

\* the aggregate that updateDailyProgressForAttempt computes: today is its
\* clock read, now the clock read of isToday
LocalStorage_progressForAttempt(attempts, userId, today, now) ==
    LET todayAttempts == LocalStorage_getQuestionAttemptsByDate(attempts, userId, today, now)
        totalQuestions == SumOf(todayAttempts, "questionsAttempted")
    IN ProgressData(today, totalQuestions,
                    SumOf(todayAttempts, "correctAnswers"),
                    SumOf(todayAttempts, "timeSpent"),
                    totalQuestions >= 30, totalQuestions >= 30)

LocalStorage_updateDailyProgressForAttempt(attempts, progressList, userId, today, now, freshId) ==
    LocalStorage_updateDailyProgress(progressList, userId,
        LocalStorage_progressForAttempt(attempts, userId, today, now), freshId)

LocalStorage_getCurrentStreak(progressList, userId, today) ==
    LET ofUser(p) == p.userId = userId
        sorted == SortDesc(SelectSeq(progressList, ofUser), "date")
        \* the loop: entry i is counted when every earlier entry was, its
        \* daysDiff equals the streak so far (i - 1) and it is a streak day
        daysDiff(p) == (today - p.date) \div TicksPerDay
        counted(i) == \A j \in 1..i : daysDiff(sorted[j]) = j - 1 /\ sorted[j].streakDay
    IN Cardinality({i \in 1..Len(sorted) : counted(i)})

(***************************************************************************)
(* JsonStorage (server/storage.ts).                                        *)
(***************************************************************************)
JsonStorage_getQuestionAttemptsByDate(attempts, userId, date) ==
    LET inDay(a) == /\ a.userId = userId
                    /\ a.attemptDate >= startOfDay(date)
                    /\ a.attemptDate <= endOfDay(date)
    IN SortDesc(SelectSeq(attempts, inDay), "attemptDate")

\* a lookup that compares the instants, not the calendar days
JsonStorage_getDailyProgress_SameInstant(progress, userId, date) ==
    LET atDate(p) == p.userId = userId /\ p.date = date
        i == FindIndex({k \in 1..Len(progress) : atDate(progress[k])})
    IN IF i > 0 THEN {progress[i]} ELSE {}

\* progress.find(...): the set holding the first match, empty when undefined
JsonStorage_getDailyProgress(progress, userId, date) ==
    LET inDay(p) == /\ p.userId = userId
                    /\ p.date >= startOfDay(date)
                    /\ p.date <= endOfDay(date)
        i == FindIndex({k \in 1..Len(progress) : inDay(progress[k])})
    IN IF i > 0 THEN {progress[i]} ELSE {}

\* { ...existing, ...progressData }
MergeProgress(existing, p) == NewProgress(existing.id, existing.userId, p)

\* the list that updateDailyProgress writes: progressList is its first read
\* of the file, found the result of getDailyProgress on its second read
JsonStorage_updatedProgressList(progressList, found, userId, progressData, freshId) ==
    IF found # {}
    THEN LET existing == CHOOSE e \in found : TRUE
             sameId(p) == p.id = existing.id
             index == FindIndex({k \in 1..Len(progressList) : sameId(progressList[k])})
         IN \* progressList[-1] = updated adds no element to the array
            IF index > 0
            THEN [progressList EXCEPT ![index] = MergeProgress(existing, progressData)]
            ELSE progressList
    ELSE Append(progressList, NewProgress(freshId, userId, progressData))

JsonStorage_updateDailyProgress(progress, userId, progressData, freshId) ==
    JsonStorage_updatedProgressList(progress,
        JsonStorage_getDailyProgress(progress, userId, progressData.date),
        userId, progressData, freshId)

\* the aggregate over all attempts of the user, of whatever day
PostProgressData_AllDays(attempts, userId, today) ==
    LET ofUser(a) == a.userId = userId
        allAttempts == SelectSeq(attempts, ofUser)
        totalQuestions == SumOf(allAttempts, "questionsAttempted")
    IN ProgressData(today, totalQuestions,
                    SumOf(allAttempts, "correctAnswers"),
                    SumOf(allAttempts, "timeSpent"),
                    totalQuestions >= 30, totalQuestions >= 30)

\* the aggregate that POST /api/question-attempts computes
PostProgressData(attempts, userId, today) ==
    LET todayAttempts == JsonStorage_getQuestionAttemptsByDate(attempts, userId, today)
        totalQuestions == SumOf(todayAttempts, "questionsAttempted")
        dailyTarget == 30
        targetAchieved == totalQuestions >= dailyTarget
    IN ProgressData(today, totalQuestions,
                    SumOf(todayAttempts, "correctAnswers"),
                    SumOf(todayAttempts, "timeSpent"),
                    targetAchieved, targetAchieved)

JsonStorage_getProgressHistory(progress, userId, days, now) ==
    LET cutoffDate == now - days * TicksPerDay
        recent(p) == p.userId = userId /\ p.date >= cutoffDate
    IN SortDesc(SelectSeq(progress, recent), "date")

JsonStorage_getCurrentStreak(progress, userId, now) ==
    LET history == JsonStorage_getProgressHistory(progress, userId, 30, now)
        counted(i) == \A j \in 1..i : history[j].streakDay
    IN Cardinality({i \in 1..Len(history) : counted(i)})

\* readJsonFile: the parsed content of the file, the default when
\* fs.readFile or JSON.parse throws: the file is missing, or it is one of
\* the files in throws, whose read fails in this call (the catch then writes
\* the default to the file, see Query)
readJsonFile(filepath, content, defaultValue, throws) ==
    IF filepath \in exists /\ filepath \notin throws THEN content ELSE defaultValue

\* getAllQuestionAttempts, the body of the answer of GET /api/export
JsonStorage_getAllQuestionAttempts ==
    readJsonFile(QUESTION_ATTEMPTS_FILE, questionAttempts, <<>>, {})

\* an import whose filter keeps the records whose id is stored already
JsonStorage_importedAttempts_KeepingKnownIds(existingAttempts, attempts) ==
    LET isKnown(newAttempt) ==
            \E i \in 1..Len(existingAttempts) : existingAttempts[i].id = newAttempt.id
    IN existingAttempts \o SelectSeq(attempts, isKnown)

\* an import that writes the new records of the batch in place of the file
JsonStorage_importedAttempts_BatchOnly(existingAttempts, attempts) ==
    LET isNew(newAttempt) ==
            ~\E i \in 1..Len(existingAttempts) : existingAttempts[i].id = newAttempt.id
    IN SelectSeq(attempts, isNew)

\* an import in which a record of the batch replaces the stored one
JsonStorage_importedAttempts_Replacing(existingAttempts, attempts) ==
    LET kept(existingAttempt) ==
            ~\E j \in 1..Len(attempts) : attempts[j].id = existingAttempt.id
    IN SelectSeq(existingAttempts, kept) \o attempts

\* importQuestionAttempts: the list written back
JsonStorage_importedAttempts(existingAttempts, attempts) ==
    LET isNew(newAttempt) ==
            ~\E i \in 1..Len(existingAttempts) : existingAttempts[i].id = newAttempt.id
        newAttempts == SelectSeq(attempts, isNew)
    IN existingAttempts \o newAttempts

(***************************************************************************)
(* Numbers.  The code computes its ratios in IEEE 754 double precision:    *)
(* Math.round((totalCorrect / totalQuestions) * 100) divides, rounds the   *)
(* quotient to 53 significant bits, multiplies, rounds again, and then     *)
(* rounds to an integer.  A positive double is held as its exponent e and  *)
(* the 52 fraction bits of its significand in three limbs of 18, 18 and 16 *)
(* bits: the value is (1 + l1/2^18 + l2/2^36 + l3/2^52) * 2^e.             *)
(***************************************************************************)
Pow2(n) == 2 ^ n

\* the k with 2^k <= n < 2^(k+1), for n >= 1
RECURSIVE Log2(_)
Log2(n) == IF n < 2 THEN 0 ELSE 1 + Log2(n \div 2)

\* the least k with c * 2^k >= q
RECURSIVE ShiftUp(_, _)
ShiftUp(c, q) == IF c >= q THEN 0 ELSE 1 + ShiftUp(2 * c, q)

\* the greatest k with q * 2^k <= c, for c >= q
RECURSIVE ShiftDown(_, _)
ShiftDown(c, q) == IF 2 * q > c THEN 0 ELSE 1 + ShiftDown(c, 2 * q)

\* significand + 1 unit in the last place, with the carries
Successor(x) ==
    IF x.l3 + 1 < Pow2(16) THEN [x EXCEPT !.l3 = x.l3 + 1]
    ELSE IF x.l2 + 1 < Pow2(18) THEN [x EXCEPT !.l3 = 0, !.l2 = x.l2 + 1]
    ELSE IF x.l1 + 1 < Pow2(18) THEN [x EXCEPT !.l3 = 0, !.l2 = 0, !.l1 = x.l1 + 1]
    ELSE [e |-> x.e + 1, l1 |-> 0, l2 |-> 0, l3 |-> 0]

\* c / q for integers c >= 1 and q >= 1: the quotient rounded to the nearest
\* double, ties to even
FloatDiv(c, q) ==
    LET e == IF c >= q THEN ShiftDown(c, q) ELSE 0 - ShiftUp(c, q)
        N == IF c >= q THEN c ELSE c * Pow2(0 - e)
        D == IF c >= q THEN q * Pow2(e) ELSE q
        r0 == N - D
        l1 == (r0 * Pow2(18)) \div D
        r1 == (r0 * Pow2(18)) % D
        l2 == (r1 * Pow2(18)) \div D
        r2 == (r1 * Pow2(18)) % D
        l3 == (r2 * Pow2(16)) \div D
        r3 == (r2 * Pow2(16)) % D
        down == [e |-> e, l1 |-> l1, l2 |-> l2, l3 |-> l3]
    IN IF 2 * r3 > D \/ (2 * r3 = D /\ l3 % 2 = 1) THEN Successor(down) ELSE down

\* x * n for a double x and an integer n in 2..127: the product rounded to
\* the nearest double, ties to even.  The result is
\* (top * 2^52 + l1 * 2^34 + l2 * 2^16 + l3) * 2^(e - 52).
FloatTimes(x, n) ==
    LET p3 == n * x.l3
        p2 == n * x.l2 + (p3 \div Pow2(16))
        p1 == n * x.l1 + (p2 \div Pow2(18))
        top == n + (p1 \div Pow2(18))
        l1 == p1 % Pow2(18)
        l2 == p2 % Pow2(18)
        l3 == p3 % Pow2(16)
        \* the product has 53 + s significant bits: its last s bits are dropped
        s == Log2(top)
        low == l3 % Pow2(s)
        kept == l3 - low
        half == Pow2(s - 1)
        up == low > half \/ (low = half /\ (l3 \div Pow2(s)) % 2 = 1)
        k3 == IF up THEN kept + Pow2(s) ELSE kept
        k2 == l2 + (k3 \div Pow2(16))
        k1 == l1 + (k2 \div Pow2(18))
    IN [e |-> x.e, top |-> top + (k1 \div Pow2(18)), l1 |-> k1 % Pow2(18),
        l2 |-> k2 % Pow2(18), l3 |-> k3 % Pow2(16)]

\* Math.round of a product of FloatTimes: the nearest integer, ties upward
MathRound(v) ==
    IF v.e < 0
    THEN LET k == 0 - v.e
         IN (v.top \div Pow2(k)) + (IF v.top % Pow2(k) >= Pow2(k - 1) THEN 1 ELSE 0)
    ELSE v.top * Pow2(v.e) + (v.l1 \div Pow2(18 - v.e))
         + ((v.l1 \div Pow2(17 - v.e)) % 2)

\* Math.round((c / q) * n)
RoundedRatio(c, q, n) ==
    IF c = 0 THEN 0 ELSE MathRound(FloatTimes(FloatDiv(c, q), n))

(***************************************************************************)
(* More array helpers.                                                     *)
(***************************************************************************)
\* Array.prototype.sort with comparator a.date - b.date: ascending, stable
SortAsc(s, f) ==
    LET before == [i \in 1..Len(s) |->
                     Cardinality({j \in 1..Len(s) :
                                    \/ s[j][f] < s[i][f]
                                    \/ s[j][f] = s[i][f] /\ j < i})]
    IN [k \in 1..Len(s) |-> s[CHOOSE i \in 1..Len(s) : before[i] = k - 1]]

\* Array.prototype.slice(0, n): a negative n counts from the end
Slice(s, n) ==
    IF n >= 0 THEN SubSeq(s, 1, Min(n, Len(s)))
    ELSE SubSeq(s, 1, Len(s) + n)

\* the keys of a Map in insertion order: the first occurrence of each value
FirstSeen(s) ==
    LET firsts == {i \in 1..Len(s) : \A j \in 1..(i - 1) : s[j] # s[i]}
    IN [k \in 1..Cardinality(firsts) |->
           s[CHOOSE i \in firsts : Cardinality({j \in firsts : j < i}) = k - 1]]

\* { ...base, ...over }
Spread(base, over) ==
    [k \in DOMAIN base \cup DOMAIN over |->
        IF k \in DOMAIN over THEN over[k] ELSE base[k]]

\* totalQuestions > 0 ? Math.round((totalCorrect / totalQuestions) * 100) : 0
Accuracy(totalCorrect, totalQuestions) ==
    IF totalQuestions > 0 THEN RoundedRatio(totalCorrect, totalQuestions, 100) ELSE 0

\* totalQuestions > 0 ? Math.round(totalTime / totalQuestions * 10) / 10 : 0,
\* in tenths of a minute
AvgTime(totalTime, totalQuestions) ==
    IF totalQuestions > 0 THEN RoundedRatio(totalTime, totalQuestions, 10) ELSE 0

(***************************************************************************)
(* The queries of LocalStorage.  An omitted optional argument is the empty *)
(* set, a given one the set of its value.                                  *)
(***************************************************************************)
LocalStorage_getQuestionAttemptsByUser(attempts, userId, limit) ==
    LET ofUser(a) == a.userId = userId
        sorted == SortDesc(SelectSeq(attempts, ofUser), "attemptDate")
    IN \* limit ? attempts.slice(0, limit) : attempts
       IF limit = {} \/ limit = {0} THEN sorted
       ELSE Slice(sorted, CHOOSE n \in limit : TRUE)

LocalStorage_getProgressHistory(progressList, userId, days, now) ==
    LET endDate == now
        startDate == endDate - (days - 1) * TicksPerDay
        inRange(p) == p.userId = userId /\ p.date >= startDate /\ p.date <= endDate
    IN SortAsc(SelectSeq(progressList, inRange), "date")

\* progress.date.toISOString().split('T')[0]: the day as a string
ISODay(date) == <<"day", Day(date)>>

LocalStorage_getWeeklyStats(progressList, userId, now) ==
    LET progressHistory == LocalStorage_getProgressHistory(progressList, userId, 7, now)
    IN [i \in 1..Len(progressHistory) |->
           [progressHistory[i] EXCEPT !.date = ISODay(progressHistory[i].date)]]

LocalStorage_getSubjectStats(attempts, subjectList, userId) ==
    LET userAttempts == LocalStorage_getQuestionAttemptsByUser(attempts, userId, {})
        stat(subject) ==
            LET inSubject(a) == a.subjectId = subject.id
                subjectAttempts == SelectSeq(userAttempts, inSubject)
                totalQuestions == SumOf(subjectAttempts, "questionsAttempted")
                totalCorrect == SumOf(subjectAttempts, "correctAnswers")
                totalTime == SumOf(subjectAttempts, "timeSpent")
            IN [subjectId |-> subject.id, subjectName |-> subject.name,
                totalQuestions |-> totalQuestions, correctAnswers |-> totalCorrect,
                totalTime |-> totalTime, attemptCount |-> Len(subjectAttempts),
                accuracy |-> Accuracy(totalCorrect, totalQuestions),
                avgTime |-> AvgTime(totalTime, totalQuestions)]
        stats == [i \in 1..Len(subjectList) |-> stat(subjectList[i])]
        attempted(st) == st.totalQuestions > 0
    IN SelectSeq(stats, attempted)

LocalStorage_getUserStats(attempts, userId) ==
    LET userAttempts == LocalStorage_getQuestionAttemptsByUser(attempts, userId, {})
        totalQuestions == SumOf(userAttempts, "questionsAttempted")
        totalCorrect == SumOf(userAttempts, "correctAnswers")
        totalTime == SumOf(userAttempts, "timeSpent")
    IN [totalQuestions |-> totalQuestions, totalCorrect |-> totalCorrect,
        totalTime |-> totalTime,
        accuracy |-> Accuracy(totalCorrect, totalQuestions),
        avgTime |-> AvgTime(totalTime, totalQuestions)]

LocalStorage_updateUserSettings(allSettings, userId, settings, freshId) ==
    LET ofUser(s) == s.userId = userId
        existingIndex == FindIndex({k \in 1..Len(allSettings) : ofUser(allSettings[k])})
        newSettings ==
            Spread([id |-> IF existingIndex > 0 THEN allSettings[existingIndex].id
                           ELSE freshId,
                    userId |-> userId, theme |-> "light", reminderEnabled |-> TRUE],
                   settings)
    IN IF existingIndex > 0
       THEN [allSettings EXCEPT ![existingIndex] = newSettings]
       ELSE Append(allSettings, newSettings)

(***************************************************************************)
(* The queries of JsonStorage.                                             *)
(***************************************************************************)
DEFAULT_LIMIT == 100

JsonStorage_getQuestionAttemptsByUser(attempts, userId, limit) ==
    LET ofUser(a) == a.userId = userId
        sorted == SortDesc(SelectSeq(attempts, ofUser), "attemptDate")
    IN Slice(sorted, IF limit = {} THEN DEFAULT_LIMIT ELSE CHOOSE n \in limit : TRUE)

\* the stat of one key of the three rollups, with accuracy and avgTime
Rollup(group) ==
    LET totalQuestions == SumOf(group, "questionsAttempted")
        totalCorrect == SumOf(group, "correctAnswers")
        totalTime == SumOf(group, "timeSpent")
    IN [totalQuestions |-> totalQuestions, totalCorrect |-> totalCorrect,
        totalTime |-> totalTime, attemptCount |-> Len(group),
        accuracy |-> Accuracy(totalCorrect, totalQuestions),
        avgTime |-> AvgTime(totalTime, totalQuestions)]

JsonStorage_getSubjectStats(attempts, subjectList, userId) ==
    LET ofUser(a) == a.userId = userId
        userAttempts == SelectSeq(attempts, ofUser)
        \* if (!subject) return
        found(a) == \E i \in 1..Len(subjectList) : subjectList[i].id = a.subjectId
        counted == SelectSeq(userAttempts, found)
        keys == FirstSeen([i \in 1..Len(counted) |-> counted[i].subjectId])
        subject(k) ==
            subjectList[FindIndex({i \in 1..Len(subjectList) : subjectList[i].id = k})]
        stat(k) ==
            LET inSubject(a) == a.subjectId = k
            IN Spread([subjectId |-> k, subjectName |-> subject(k).name],
                      Rollup(SelectSeq(counted, inSubject)))
    IN [i \in 1..Len(keys) |-> stat(keys[i])]

JsonStorage_getTopicStats(attempts, userId, subjectId) ==
    LET inSubject(a) == a.userId = userId /\ a.subjectId = subjectId
        userSubjectAttempts == SelectSeq(attempts, inSubject)
        keys == FirstSeen([i \in 1..Len(userSubjectAttempts) |->
                              userSubjectAttempts[i].topic])
        stat(k) ==
            LET onTopic(a) == a.topic = k
            IN Spread([topic |-> k], Rollup(SelectSeq(userSubjectAttempts, onTopic)))
    IN [i \in 1..Len(keys) |-> stat(keys[i])]

\* a rollup that has an entry only for the levels with an attempt
JsonStorage_getDifficultyStats_UsedLevels(attempts, userId, subjectId) ==
    LET inSubject(a) == a.userId = userId /\ a.subjectId = subjectId
        userSubjectAttempts == SelectSeq(attempts, inSubject)
        levels == <<"Easy", "Medium", "Hard">>
        stat(level) ==
            LET ofLevel(a) == a.difficulty = level
            IN Spread([difficulty |-> level],
                      Rollup(SelectSeq(userSubjectAttempts, ofLevel)))
        used(st) == st.attemptCount > 0
    IN SelectSeq([i \in 1..Len(levels) |-> stat(levels[i])], used)

JsonStorage_getDifficultyStats(attempts, userId, subjectId) ==
    LET inSubject(a) == a.userId = userId /\ a.subjectId = subjectId
        userSubjectAttempts == SelectSeq(attempts, inSubject)
        levels == <<"Easy", "Medium", "Hard">>
        stat(level) ==
            LET ofLevel(a) == a.difficulty = level
            IN Spread([difficulty |-> level],
                      Rollup(SelectSeq(userSubjectAttempts, ofLevel)))
    IN [i \in 1..Len(levels) |-> stat(levels[i])]

JsonStorage_getWeeklyStats(progress, userId, now) ==
    LET weekAgo == now - 7 * TicksPerDay
        recent(p) == p.userId = userId /\ p.date >= weekAgo
    IN SortAsc(SelectSeq(progress, recent), "date")

JsonStorage_getUserStats(attempts, progress, userId, now) ==
    LET ofUser(a) == a.userId = userId
        userAttempts == SelectSeq(attempts, ofUser)
        totalQuestions == SumOf(userAttempts, "questionsAttempted")
        totalCorrect == SumOf(userAttempts, "correctAnswers")
        totalTime == SumOf(userAttempts, "timeSpent")
        streak == JsonStorage_getCurrentStreak(progress, userId, now)
    IN [totalQuestions |-> totalQuestions, totalCorrect |-> totalCorrect,
        totalTime |-> totalTime, currentStreak |-> streak,
        accuracy |-> Accuracy(totalCorrect, totalQuestions)]

\* the list that updateUserSettings writes: settingsList is its first read
\* of the file, found the result of getUserSettings on its second read
JsonStorage_updateUserSettings(settingsList, userId, settingsData, freshId) ==
    LET ofUser(s) == s.userId = userId
        i == FindIndex({k \in 1..Len(settingsList) : ofUser(settingsList[k])})
    IN IF i > 0
       THEN LET existing == settingsList[i]
                sameId(s) == s.id = existing.id
                index == FindIndex({k \in 1..Len(settingsList) : sameId(settingsList[k])})
            IN [settingsList EXCEPT ![index] = Spread(existing, settingsData)]
       ELSE Append(settingsList,
                Spread([id |-> freshId, userId |-> userId, theme |-> "light",
                        reminderEnabled |-> TRUE], settingsData))

(***************************************************************************)
(* The record of the last operation.                                       *)
(***************************************************************************)
Last(op, status, input, attemptDate, today, now, batch) ==
    [op |-> op, status |-> status, input |-> input, attemptDate |-> attemptDate,
     today |-> today, now |-> now, batch |-> batch]

NoLast == Last("none", "", NoInput, 0, 0, 0, <<>>)

\* no query was made yet
NoResult == <<>>

\* the clock reads of one handler: a later read is never earlier
LaterReads(t) == t..Min(t + 1, MaxClock)

(***************************************************************************)
(* One operation after another.                                            *)
(***************************************************************************)
Init ==
    /\ backend \in {"local", "json"}
    /\ clock = 0
    /\ questionAttempts = <<>>
    /\ dailyProgress = <<>>
    /\ exists = IF backend = "json" THEN {SUBJECTS_FILE} ELSE {}
    /\ nextId = 1
    /\ ops = 0
    /\ last = NoLast
    /\ pc = <<>>
    /\ loc = <<>>
    /\ subjects = GATE_ECE_SUBJECTS
    /\ userSettings = <<>>
    /\ result = NoResult

\* time passes between two operations
Tick ==
    /\ clock < MaxClock
    /\ clock' = clock + 1
    /\ UNCHANGED <<backend, subjects, userSettings, result, questionAttempts, dailyProgress, exists, nextId, ops,
                   last, pc, loc>>

\* LocalStorage.createQuestionAttempt: attemptDate is the clock at the call,
\* today the read of updateDailyProgressForAttempt, now the read of isToday
LocalStorage_createQuestionAttempt(userId, attempt, today, now) ==
    LET newAttempt == NewAttempt(nextId, userId, attempt, clock)
        attempts == Append(questionAttempts, newAttempt)
    IN /\ questionAttempts' = attempts
       /\ dailyProgress' = LocalStorage_updateDailyProgressForAttempt(
                               attempts, dailyProgress, userId, today, now, nextId + 1)
       /\ nextId' = nextId + 2
       /\ clock' = now
       /\ last' = Last("create", "logged", attempt, clock, today, now, <<>>)

\* Dashboard.handleSubmit behind the form resolver; the mutation calls
\* api.questionAttempts.create, which is storage.createQuestionAttempt
handleSubmit ==
    /\ backend = "local"
    /\ ops < MaxOps
    /\ ops' = ops + 1
    /\ \E data \in Inputs :
         IF ~questionAttemptSchema(data) \/ data.correctAnswers > data.questionsAttempted
         THEN /\ last' = Last("create", "form-error", data, clock, clock, clock, <<>>)
              /\ UNCHANGED <<clock, questionAttempts, dailyProgress, nextId>>
         ELSE /\ \E today \in LaterReads(clock) : \E now \in LaterReads(today) :
                   LocalStorage_createQuestionAttempt(DEMO_USER_ID, data, today, now)
    /\ UNCHANGED <<backend, subjects, userSettings, result, exists, pc, loc>>

\* app.post("/api/question-attempts"): attemptDate is the clock at the call,
\* today the read of the handler after the attempt is written
PostQuestionAttempt ==
    /\ backend = "json"
    /\ ops < MaxOps
    /\ ops' = ops + 1
    /\ \E body \in Inputs :
         IF ~insertQuestionAttemptSchema(body)
         THEN /\ last' = Last("create", "400", body, clock, clock, clock, <<>>)
              /\ UNCHANGED <<clock, questionAttempts, dailyProgress, exists, nextId>>
         ELSE /\ \E today \in LaterReads(clock) :
                   LET userId == "demo-user-id"
                       attempt == NewAttempt(nextId, userId, body, clock)
                       attempts == Append(questionAttempts, attempt)
                   IN /\ questionAttempts' = attempts
                      /\ dailyProgress' = JsonStorage_updateDailyProgress(
                             dailyProgress, userId,
                             PostProgressData(attempts, userId, today), nextId + 1)
                      /\ exists' = exists \cup {QUESTION_ATTEMPTS_FILE, DAILY_PROGRESS_FILE}
                      /\ nextId' = nextId + 2
                      /\ clock' = today
                      /\ last' = Last("create", "200", body, clock, today, today, <<>>)
    /\ UNCHANGED <<backend, subjects, userSettings, result, pc, loc>>

\* the progress records a caller of updateDailyProgress passes
ProgressInputs ==
    { ProgressData(d, q, 0, q, q >= 30, q >= 30) :
        d \in {clock - 1, clock} \cap (0..MaxClock), q \in {0, 30} }

\* IStorage.updateDailyProgress called on its own
UpdateDailyProgress ==
    /\ ops < MaxOps
    /\ ops' = ops + 1
    /\ \E userId \in Users : \E progress \in ProgressInputs :
         /\ dailyProgress' =
              IF backend = "local"
              THEN LocalStorage_updateDailyProgress(dailyProgress, userId, progress, nextId)
              ELSE JsonStorage_updateDailyProgress(dailyProgress, userId, progress, nextId)
         /\ last' = Last("update", "ok", NoInput, clock, progress.date, clock, <<>>)
    /\ exists' = IF backend = "json" THEN exists \cup {DAILY_PROGRESS_FILE} ELSE exists
    /\ nextId' = nextId + 1
    /\ UNCHANGED <<backend, subjects, userSettings, result, clock, questionAttempts, pc, loc>>

\* the records an import batch is made of: copies of stored attempts whose
\* questionsAttempted was edited, and attempts of another installation
Edited(a) == [a EXCEPT !.questionsAttempted = a.questionsAttempted + 1]

ForeignAttempts ==
    { NewAttempt(101, DEMO_USER_ID, AttemptInput("s-nss", "Filters", 20, 16, "Medium", 40), 0) }

BatchRecords == {Edited(questionAttempts[i]) : i \in 1..Len(questionAttempts)} \cup ForeignAttempts

Batches == UNION {[1..n -> BatchRecords] : n \in 0..MaxBatch}

\* app.post("/api/import") with an array body
PostImport ==
    /\ backend = "json"
    /\ ops < MaxOps
    /\ ops' = ops + 1
    /\ \E attempts \in Batches :
         /\ questionAttempts' = JsonStorage_importedAttempts(questionAttempts, attempts)
         /\ last' = Last("import", "200", NoInput, clock, clock, clock, attempts)
    /\ exists' = exists \cup {QUESTION_ATTEMPTS_FILE}
    /\ UNCHANGED <<backend, subjects, userSettings, result, clock, dailyProgress, nextId, pc, loc>>

\* Partial<InsertUserSettings>: the fields a caller of updateUserSettings passes
SettingsInputs == { [theme |-> "dark"], [reminderEnabled |-> FALSE] }

\* IStorage.updateUserSettings
UpdateUserSettings ==
    /\ ops < MaxOps
    /\ ops' = ops + 1
    /\ \E userId \in Users : \E settings \in SettingsInputs :
         /\ userSettings' =
              IF backend = "local"
              THEN LocalStorage_updateUserSettings(userSettings, userId, settings, nextId)
              ELSE JsonStorage_updateUserSettings(
                       readJsonFile(USER_SETTINGS_FILE, userSettings, <<>>, {}),
                       userId, settings, nextId)
         /\ last' = Last("settings", "ok", [userId |-> userId, settings |-> settings],
                         clock, clock, clock, <<>>)
    /\ exists' = IF backend = "json" THEN exists \cup {USER_SETTINGS_FILE} ELSE exists
    /\ nextId' = nextId + 1
    /\ UNCHANGED <<backend, subjects, result, clock, questionAttempts, dailyProgress,
                   pc, loc>>

\* the arguments of a query; limit is the empty set when it is omitted
QueryArgs(name, userId, subjectId, limit, date, days) ==
    [name |-> name, userId |-> userId, subjectId |-> subjectId, limit |-> limit,
     date |-> date, days |-> days]

\* the data files a query of JsonStorage reads with readJsonFile
FilesRead(name) ==
    CASE name = "getAllSubjects" -> {SUBJECTS_FILE}
      [] name = "getSubjectStats" -> {QUESTION_ATTEMPTS_FILE, SUBJECTS_FILE}
      [] name \in {"getTopicStats", "getDifficultyStats", "getQuestionAttemptsByUser",
                   "getQuestionAttemptsByDate"} -> {QUESTION_ATTEMPTS_FILE}
      [] name \in {"getWeeklyStats", "getCurrentStreak", "getProgressHistory"} ->
             {DAILY_PROGRESS_FILE}
      [] name = "getUserStats" -> {QUESTION_ATTEMPTS_FILE, DAILY_PROGRESS_FILE}

\* what the storage answers to a query made now, the reads of the files in
\* throws failing
Answer(q, throws) ==
    IF backend = "local"
    THEN CASE q.name = "getAllSubjects" -> subjects
           [] q.name = "getSubjectStats" ->
                  LocalStorage_getSubjectStats(questionAttempts, subjects, q.userId)
           [] q.name = "getWeeklyStats" ->
                  LocalStorage_getWeeklyStats(dailyProgress, q.userId, clock)
           [] q.name = "getUserStats" ->
                  LocalStorage_getUserStats(questionAttempts, q.userId)
           [] q.name = "getCurrentStreak" ->
                  LocalStorage_getCurrentStreak(dailyProgress, q.userId, clock)
           [] q.name = "getProgressHistory" ->
                  LocalStorage_getProgressHistory(dailyProgress, q.userId, q.days, clock)
           [] q.name = "getQuestionAttemptsByUser" ->
                  LocalStorage_getQuestionAttemptsByUser(questionAttempts, q.userId, q.limit)
           [] q.name = "getQuestionAttemptsByDate" ->
                  LocalStorage_getQuestionAttemptsByDate(questionAttempts, q.userId,
                                                         q.date, clock)
    ELSE LET attempts == readJsonFile(QUESTION_ATTEMPTS_FILE, questionAttempts, <<>>, throws)
             progress == readJsonFile(DAILY_PROGRESS_FILE, dailyProgress, <<>>, throws)
             subjectList == readJsonFile(SUBJECTS_FILE, subjects, <<>>, throws)
         IN CASE q.name = "getAllSubjects" -> subjectList
              [] q.name = "getSubjectStats" ->
                     JsonStorage_getSubjectStats(attempts, subjectList, q.userId)
              [] q.name = "getTopicStats" ->
                     JsonStorage_getTopicStats(attempts, q.userId, q.subjectId)
              [] q.name = "getDifficultyStats" ->
                     JsonStorage_getDifficultyStats(attempts, q.userId, q.subjectId)
              [] q.name = "getWeeklyStats" ->
                     JsonStorage_getWeeklyStats(progress, q.userId, clock)
              [] q.name = "getUserStats" ->
                     JsonStorage_getUserStats(attempts, progress, q.userId, clock)
              [] q.name = "getCurrentStreak" ->
                     JsonStorage_getCurrentStreak(progress, q.userId, clock)
              [] q.name = "getProgressHistory" ->
                     JsonStorage_getProgressHistory(progress, q.userId, q.days, clock)
              [] q.name = "getQuestionAttemptsByUser" ->
                     JsonStorage_getQuestionAttemptsByUser(attempts, q.userId, q.limit)
              [] q.name = "getQuestionAttemptsByDate" ->
                     JsonStorage_getQuestionAttemptsByDate(attempts, q.userId, q.date)

\* the content of a data file after a query: readJsonFile writes the default
\* to a file it could not read
AfterQuery(name, filepath, content, throws) ==
    IF backend = "json" /\ filepath \in FilesRead(name)
    THEN readJsonFile(filepath, content, <<>>, throws)
    ELSE content

\* the analytics and streak queries, as the routes and the mock api make them
AnalyticsQueries ==
    { QueryArgs(name, DEMO_USER_ID, "", {}, 0, 0) :
        name \in {"getAllSubjects", "getSubjectStats", "getWeeklyStats", "getUserStats",
                  "getCurrentStreak"} }
    \cup { QueryArgs("getProgressHistory", DEMO_USER_ID, "", {}, 0, 7) }
    \cup (IF backend = "json"
          THEN { QueryArgs(name, DEMO_USER_ID, "s-nss", {}, 0, 0) :
                   name \in {"getTopicStats", "getDifficultyStats"} }
          ELSE {})

\* the reads of a query all succeed on the files that exist
NoReadError == { {} }

\* the reads of a query that can throw on a file that exists: fs.readFile
\* rejects or JSON.parse throws on any of the files the query reads.
\* LocalStorage reads with getFromStorage, which has no file to fail on.
ReadErrors(name) ==
    IF backend = "json" THEN SUBSET (FilesRead(name) \cap exists) ELSE { {} }

\* one query of the storage interface; errors is the set of the sets of files
\* whose read may throw
Query(queries, readErrors) ==
    /\ ops < MaxOps
    /\ ops' = ops + 1
    /\ \E q \in queries : \E throws \in readErrors \cap ReadErrors(q.name) :
         /\ result' = Answer(q, throws)
         /\ last' = Last("query", q.name, q, clock, clock, clock, <<>>)
         /\ subjects' = AfterQuery(q.name, SUBJECTS_FILE, subjects, throws)
         /\ questionAttempts' =
              AfterQuery(q.name, QUESTION_ATTEMPTS_FILE, questionAttempts, throws)
         /\ dailyProgress' = AfterQuery(q.name, DAILY_PROGRESS_FILE, dailyProgress, throws)
         /\ userSettings' = AfterQuery(q.name, USER_SETTINGS_FILE, userSettings, throws)
         /\ exists' = IF backend = "json" THEN exists \cup FilesRead(q.name) ELSE exists
    /\ UNCHANGED <<backend, clock, nextId, pc, loc>>

Next ==
    \/ Tick
    \/ handleSubmit
    \/ PostQuestionAttempt
    \/ UpdateDailyProgress
    \/ PostImport
    \/ UpdateUserSettings
    \/ Query(AnalyticsQueries, NoReadError)

Spec == Init /\ [][Next]_vars

\* the same requests, made of a JsonStorage whose read of an existing data
\* file can throw
DataFiles ==
    {SUBJECTS_FILE, QUESTION_ATTEMPTS_FILE, DAILY_PROGRESS_FILE, USER_SETTINGS_FILE}

NextReadErrors ==
    \/ Tick
    \/ handleSubmit
    \/ PostQuestionAttempt
    \/ UpdateDailyProgress
    \/ PostImport
    \/ UpdateUserSettings
    \/ Query(AnalyticsQueries, SUBSET DataFiles)

SpecReadErrors == Init /\ [][NextReadErrors]_vars

(***************************************************************************)
(* The queries asked of a store that earlier requests filled.  The store   *)
(* is drawn from logs of sample attempts and lists of sample DailyProgress *)
(* records, the clock from the instants of the current day; one query is   *)
(* then made.                                                              *)
(***************************************************************************)
\* the current day, counted from the day of the oldest stored record
StatsDays == 8
\* the most attempts of a drawn log; a drawn list of DailyProgress records
\* has fewer records
MaxLog == 3

StatsToday == StatsDays * TicksPerDay
StatsClocks == StatsToday..(StatsToday + TicksPerDay - 1)

\* attempts that POST /api/question-attempts and the form accept: two
\* subjects of the catalog and one that the catalog does not hold (neither
\* schema looks the subject up), the three difficulties, both users, today,
\* yesterday and the oldest day; 23 correct of 40 is 57.5 percent
SampleAttempts ==
    << NewAttempt(101, DEMO_USER_ID,
                  AttemptInput("s-nss", "Filters", 40, 23, "Medium", 130), StatsToday),
       NewAttempt(102, DEMO_USER_ID,
                  AttemptInput("s-nss", "Sampling", 20, 16, "Hard", 40),
                  StatsToday - TicksPerDay),
       NewAttempt(103, DEMO_USER_ID,
                  AttemptInput("s-ed", "Zener Diodes", 15, 15, "Easy", 5),
                  StatsToday - 1),
       NewAttempt(104, DEMO_USER_ID,
                  AttemptInput("s-old", "Logic Gates", 10, 5, "Easy", 10), 0),
       NewAttempt(105, OTHER_USER_ID,
                  AttemptInput("s-nss", "Filters", 10, 8, "Medium", 20), StatsToday),
       NewAttempt(106, DEMO_USER_ID,
                  AttemptInput("s-nss", "Filters", 20, 16, "Medium", 40), 1) >>

\* the logs of at most MaxLog different sample attempts, in any order
StatsLogs ==
    UNION { { [i \in 1..n |-> SampleAttempts[f[i]]] :
                f \in { g \in [1..n -> 1..Len(SampleAttempts)] :
                          \A i, j \in 1..n : i # j => g[i] # g[j] } } :
            n \in 0..MaxLog }

\* a log of one attempt more than the default limit of the attempt listing
BigLog ==
    [i \in 1..(DEFAULT_LIMIT + 1) |->
        NewAttempt(200 + i, DEMO_USER_ID,
                   AttemptInput("s-ed", "Zener Diodes", 1, 1, "Easy", 1),
                   i % (StatsToday + 1))]

\* the dates of the sample DailyProgress records: around the start of the
\* windows of 7 and of 6 days before now, and the current day
StatsDates(now) ==
    { now - 7 * TicksPerDay - 1, now - 7 * TicksPerDay,
      now - 6 * TicksPerDay - 1, now - 6 * TicksPerDay, now - 1, now }

\* the lists of fewer than MaxLog records, one at most for a user and a day
StatsProgress(now) ==
    UNION { { [i \in 1..n |->
                 NewProgress(300 + i, f[i][1],
                             ProgressData(f[i][2], 30, 24, 60, TRUE, TRUE))] :
                f \in { g \in [1..n -> Users \X StatsDates(now)] :
                          \A i, j \in 1..n :
                             i # j => \/ g[i][1] # g[j][1]
                                      \/ Day(g[i][2]) # Day(g[j][2]) } } :
            n \in 0..(MaxLog - 1) }

StatsInit ==
    /\ backend \in {"local", "json"}
    /\ clock \in StatsClocks
    /\ \/ /\ questionAttempts \in StatsLogs \cup {BigLog}
          /\ dailyProgress = <<>>
       \/ /\ questionAttempts \in {<<>>, <<SampleAttempts[1]>>}
          /\ dailyProgress \in StatsProgress(clock)
    /\ exists = IF backend = "json"
                THEN {SUBJECTS_FILE, QUESTION_ATTEMPTS_FILE, DAILY_PROGRESS_FILE}
                ELSE {}
    /\ nextId = 500
    /\ ops = MaxOps - 1
    /\ last = NoLast
    /\ pc = <<>>
    /\ loc = <<>>
    /\ subjects = GATE_ECE_SUBJECTS
    /\ userSettings = <<>>
    /\ result = NoResult

\* the queries of the storage interface, with the arguments a caller can give
StatsQueries ==
    { QueryArgs(name, userId, "", {}, 0, 0) :
        name \in {"getSubjectStats", "getWeeklyStats", "getUserStats", "getCurrentStreak"},
        userId \in Users }
    \cup { QueryArgs("getQuestionAttemptsByUser", userId, "", limit, 0, 0) :
             userId \in Users, limit \in {{}, {0}, {1}, {2}} }
    \cup { QueryArgs("getQuestionAttemptsByDate", userId, "", {}, date, 0) :
             userId \in Users, date \in {0, StatsToday - TicksPerDay, clock} }
    \cup (IF backend = "json"
          THEN { QueryArgs("getDifficultyStats", userId, subjectId, {}, 0, 0) :
                   userId \in Users, subjectId \in {"s-nss", "s-ed", "s-old", "s-cs"} }
          ELSE {})

StatsNext == Query(StatsQueries, NoReadError)

SpecStats == StatsInit /\ [][StatsNext]_vars

(***************************************************************************)
(* Seeding of the subject catalog at startup: initializeSubjects of the    *)
(* server runs before the routes are registered, the one of LocalStorage   *)
(* in the constructor.  A restart or a new instance runs it again.         *)
(***************************************************************************)
\* createSubject: push { id, ...insertSubject }
JsonStorage_createSubject(subjectList, insertSubject, id) ==
    Append(subjectList, Spread([id |-> id], insertSubject))

\* the subjects array of initializeSubjects of the server
SeedSubjects ==
    [i \in 1..Len(GATE_ECE_SUBJECTS) |->
        [name |-> GATE_ECE_SUBJECTS[i].name, code |-> GATE_ECE_SUBJECTS[i].code]]

\* for (const subject of subjects) await storage.createSubject(subject),
\* from the i-th subject on
RECURSIVE createSubjects(_, _)
createSubjects(subjectList, i) ==
    IF i > Len(SeedSubjects) THEN subjectList
    ELSE createSubjects(
             JsonStorage_createSubject(subjectList, SeedSubjects[i],
                                       GATE_ECE_SUBJECTS[i].id),
             i + 1)

\* a seeding that does not look at the subjects that exist
initializeSubjects_Always(existingSubjects) ==
    createSubjects(existingSubjects, 1)

\* initializeSubjects of routes.ts: nothing when a subject exists
initializeSubjects(existingSubjects) ==
    IF Len(existingSubjects) > 0 THEN existingSubjects
    ELSE createSubjects(existingSubjects, 1)

\* initializeSubjects of LocalStorage
LocalStorage_initializeSubjects(stored) ==
    IF Len(stored) = 0 THEN GATE_ECE_SUBJECTS ELSE stored

\* the server starts, or a LocalStorage is constructed
Startup ==
    /\ subjects' =
         IF backend = "local" THEN LocalStorage_initializeSubjects(subjects)
         ELSE initializeSubjects(readJsonFile(SUBJECTS_FILE, subjects, <<>>, {}))
    /\ exists' = IF backend = "json" THEN exists \cup {SUBJECTS_FILE} ELSE exists
    /\ last' = Last("initializeSubjects", "ok", NoInput, clock, clock, clock, <<>>)
    /\ UNCHANGED <<backend, clock, questionAttempts, dailyProgress, nextId, ops, pc, loc,
                   userSettings, result>>

\* a storage that was never started: no subject is stored
SeedInit ==
    /\ backend \in {"local", "json"}
    /\ clock = 0
    /\ questionAttempts = <<>>
    /\ dailyProgress = <<>>
    /\ exists = {}
    /\ nextId = 1
    /\ ops = 0
    /\ last = NoLast
    /\ pc = <<>>
    /\ loc = <<>>
    /\ subjects = <<>>
    /\ userSettings = <<>>
    /\ result = NoResult

\* requests are served once the catalog was initialized
SeedNext ==
    \/ Startup
    \/ /\ subjects # <<>>
       /\ \/ Tick
          \/ UpdateUserSettings
          \/ Query(AnalyticsQueries, NoReadError)

SpecSeed == SeedInit /\ [][SeedNext]_vars

(***************************************************************************)
(* Logging while a write to the storage medium fails.  writeJsonFile of    *)
(* JsonStorage rejects when fs.writeFile does, and the route answers 500;  *)
(* setToStorage of LocalStorage catches the error of localStorage.setItem  *)
(* and returns.                                                            *)
(***************************************************************************)
\* the storage calls of POST /api/question-attempts that can throw
ThrowingCalls == {"createQuestionAttempt", "getQuestionAttemptsByDate", "updateDailyProgress"}

\* app.post("/api/question-attempts") with a storage call that throws:
\* createQuestionAttempt when its writeJsonFile rejects,
\* getQuestionAttemptsByDate when its read fails and the write of the default
\* rejects, updateDailyProgress when its writeJsonFile rejects
PostQuestionAttemptThrows ==
    /\ backend = "json"
    /\ ops < MaxOps
    /\ ops' = ops + 1
    /\ \E body \in GoodInputs : \E throwing \in ThrowingCalls :
         LET userId == "demo-user-id"
             attempt == NewAttempt(nextId, userId, body, clock)
             attempts == Append(readJsonFile(QUESTION_ATTEMPTS_FILE, questionAttempts,
                                             <<>>, {}),
                                attempt)
         IN /\ IF throwing = "createQuestionAttempt"
               THEN UNCHANGED <<questionAttempts, exists>>
               ELSE /\ questionAttempts' = attempts
                    /\ exists' = exists \cup {QUESTION_ATTEMPTS_FILE}
            /\ last' = Last("create", "500", body, clock, clock, clock, <<>>)
    /\ nextId' = nextId + 1
    /\ UNCHANGED <<backend, subjects, userSettings, result, clock, dailyProgress, pc, loc>>

\* the keys whose setToStorage can fail
FailingKeys == {"QUESTION_ATTEMPTS", "DAILY_PROGRESS"}

\* Dashboard.handleSubmit while localStorage.setItem throws for the keys in
\* failing (quota exceeded, storage unavailable): setToStorage logs the error
\* and createQuestionAttempt goes on and returns newAttempt
handleSubmitSetItemThrows ==
    /\ backend = "local"
    /\ ops < MaxOps
    /\ ops' = ops + 1
    /\ \E data \in GoodInputs : \E failing \in (SUBSET FailingKeys) \ {{}} :
         LET newAttempt == NewAttempt(nextId, DEMO_USER_ID, data, clock)
             attempts == Append(questionAttempts, newAttempt)
             stored == IF "QUESTION_ATTEMPTS" \in failing THEN questionAttempts
                       ELSE attempts
         IN /\ questionAttempts' = stored
            /\ dailyProgress' =
                 IF "DAILY_PROGRESS" \in failing THEN dailyProgress
                 ELSE LocalStorage_updateDailyProgressForAttempt(
                          stored, dailyProgress, DEMO_USER_ID, clock, clock, nextId + 1)
            /\ last' = Last("create", "logged", data, clock, clock, clock, <<>>)
    /\ nextId' = nextId + 2
    /\ UNCHANGED <<backend, subjects, userSettings, result, clock, exists, pc, loc>>

NextWriteErrors ==
    \/ Tick
    \/ handleSubmit
    \/ PostQuestionAttempt
    \/ PostQuestionAttemptThrows
    \/ handleSubmitSetItemThrows
    \/ Query(AnalyticsQueries, NoReadError)

SpecWriteErrors == Init /\ [][NextWriteErrors]_vars

(***************************************************************************)
(* The today summary: GET /api/daily-progress/today of the server and      *)
(* api.dailyProgress.getToday of the mock api.                             *)
(***************************************************************************)
\* LocalStorage.getDailyProgress: the set holding the first record of the
\* user with the same toDateString, empty when undefined
LocalStorage_getDailyProgress(progressList, userId, date) ==
    LET sameDay(p) == p.userId = userId /\ Day(p.date) = Day(date)
        i == FindIndex({k \in 1..Len(progressList) : sameDay(progressList[k])})
    IN IF i > 0 THEN {progressList[i]} ELSE {}

\* the body that the route answers: the numbers come from the stored record
TodayOfRoute(progressList, attemptList, userId, today) ==
    LET progress == JsonStorage_getDailyProgress(progressList, userId, today)
        attempts == JsonStorage_getQuestionAttemptsByDate(attemptList, userId, today)
        record == CHOOSE p \in progress : TRUE
    IN [progress |-> progress,
        attempts |-> attempts,
        questionsToday |-> IF progress = {} THEN 0 ELSE record.totalQuestions,
        accuracyRate |-> IF progress # {} /\ record.totalQuestions > 0
                         THEN RoundedRatio(record.totalCorrect, record.totalQuestions, 100)
                         ELSE 0,
        timeSpent |-> IF progress = {} THEN 0 ELSE record.totalTimeSpent]

\* what the mock api returns: the numbers are summed over the attempts
TodayOfMockApi(progressList, attemptList, userId, today, now) ==
    LET progress == LocalStorage_getDailyProgress(progressList, userId, today)
        attempts == LocalStorage_getQuestionAttemptsByDate(attemptList, userId, today, now)
        questionsToday == SumOf(attempts, "questionsAttempted")
        correctToday == SumOf(attempts, "correctAnswers")
        timeToday == SumOf(attempts, "timeSpent")
    IN [progress |-> progress,
        attempts |-> attempts,
        questionsToday |-> questionsToday,
        accuracyRate |-> IF questionsToday > 0
                         THEN RoundedRatio(correctToday, questionsToday, 100) ELSE 0,
        timeSpent |-> timeToday]

\* one request of the today summary
GetToday ==
    /\ ops < MaxOps
    /\ ops' = ops + 1
    /\ result' =
         IF backend = "local"
         THEN TodayOfMockApi(dailyProgress, questionAttempts, DEMO_USER_ID, clock, clock)
         ELSE TodayOfRoute(readJsonFile(DAILY_PROGRESS_FILE, dailyProgress, <<>>, {}),
                           readJsonFile(QUESTION_ATTEMPTS_FILE, questionAttempts, <<>>, {}),
                           "demo-user-id", clock)
    /\ last' = Last("today", "200", NoInput, clock, clock, clock, <<>>)
    /\ exists' = IF backend = "json"
                 THEN exists \cup {DAILY_PROGRESS_FILE, QUESTION_ATTEMPTS_FILE}
                 ELSE exists
    /\ UNCHANGED <<backend, clock, questionAttempts, dailyProgress, nextId, pc, loc,
                   subjects, userSettings>>

NextToday ==
    \/ Tick
    \/ handleSubmit
    \/ PostQuestionAttempt
    \/ PostImport
    \/ GetToday

SpecToday == Init /\ [][NextToday]_vars

(***************************************************************************)
(* POST /api/question-attempts handlers in flight at the same time.  A     *)
(* handler runs until its next await on the file system; the reads and     *)
(* writes of the files take effect one at a time, in any order.            *)
(***************************************************************************)
Handlers == 1..NumHandlers

NoAttempt == NewAttempt(0, "", NoInput, 0)
NoProgress == ProgressData(0, 0, 0, 0, FALSE, FALSE)

NoLocals ==
    [attempts |-> <<>>, newAttempt |-> NoAttempt, today |-> 0,
     progressData |-> NoProgress, progressList |-> <<>>, toWrite |-> <<>>,
     status |-> ""]

\* an attempt logged earlier on day 0, with its DailyProgress record
EarlierAttempt ==
    NewAttempt(90, DEMO_USER_ID, AttemptInput("s-nss", "Filters", 20, 16, "Medium", 40), 0)

EarlierProgress ==
    NewProgress(91, DEMO_USER_ID, ProgressData(0, 20, 16, 40, FALSE, FALSE))

RaceInit ==
    /\ backend = "json"
    /\ clock = 0
    /\ \/ /\ exists = {SUBJECTS_FILE}
          /\ questionAttempts = <<>>
          /\ dailyProgress = <<>>
       \/ /\ exists = {SUBJECTS_FILE, QUESTION_ATTEMPTS_FILE, DAILY_PROGRESS_FILE}
          /\ questionAttempts = <<>>
          /\ dailyProgress = <<>>
       \/ /\ exists = {SUBJECTS_FILE, QUESTION_ATTEMPTS_FILE, DAILY_PROGRESS_FILE}
          /\ questionAttempts = <<EarlierAttempt>>
          /\ dailyProgress = <<EarlierProgress>>
    /\ nextId = 1
    /\ ops = 0
    /\ last = NoLast
    /\ pc = [h \in Handlers |-> "start"]
    /\ loc = [h \in Handlers |-> NoLocals]
    /\ subjects = GATE_ECE_SUBJECTS
    /\ userSettings = <<>>
    /\ result = NoResult

RaceTick ==
    /\ clock < RaceMaxClock
    /\ clock' = clock + 1
    /\ UNCHANGED <<backend, subjects, userSettings, result, questionAttempts, dailyProgress, exists, nextId, ops,
                   last, pc, loc>>

\* insertQuestionAttemptSchema.parse(req.body), then createQuestionAttempt
\* starts to read question-attempts.json
HandlerStart(h) ==
    /\ pc[h] = "start"
    /\ \E body \in Inputs :
         IF ~insertQuestionAttemptSchema(body)
         THEN /\ pc' = [pc EXCEPT ![h] = "done"]
              /\ loc' = [loc EXCEPT ![h].status = "400"]
         ELSE /\ pc' = [pc EXCEPT ![h] = "readAttempts"]
              /\ loc' = [loc EXCEPT ![h].newAttempt = NewAttempt(0, "", body, 0)]
    /\ UNCHANGED <<backend, subjects, userSettings, result, clock, questionAttempts, dailyProgress, exists, nextId,
                   ops, last>>

\* readJsonFile(QUESTION_ATTEMPTS_FILE) of createQuestionAttempt: the read
\* succeeds and newAttempt is pushed on the array read, or it fails and the
\* default is about to be written
HandlerReadAttempts(h) ==
    /\ pc[h] = "readAttempts"
    /\ IF QUESTION_ATTEMPTS_FILE \in exists
       THEN /\ pc' = [pc EXCEPT ![h] = "writeAttempts"]
            /\ loc' = [loc EXCEPT
                 ![h].attempts = questionAttempts,
                 ![h].newAttempt = [@ EXCEPT !.id = nextId, !.userId = "demo-user-id",
                                               !.attemptDate = clock]]
            /\ nextId' = nextId + 1
       ELSE /\ pc' = [pc EXCEPT ![h] = "defaultAttempts"]
            /\ UNCHANGED <<loc, nextId>>
    /\ UNCHANGED <<backend, subjects, userSettings, result, clock, questionAttempts, dailyProgress, exists, ops, last>>

\* the catch of readJsonFile: write the default and return it
HandlerDefaultAttempts(h) ==
    /\ pc[h] = "defaultAttempts"
    /\ questionAttempts' = <<>>
    /\ exists' = exists \cup {QUESTION_ATTEMPTS_FILE}
    /\ pc' = [pc EXCEPT ![h] = "writeAttempts"]
    /\ loc' = [loc EXCEPT
         ![h].attempts = <<>>,
         ![h].newAttempt = [@ EXCEPT !.id = nextId, !.userId = "demo-user-id",
                                       !.attemptDate = clock]]
    /\ nextId' = nextId + 1
    /\ UNCHANGED <<backend, subjects, userSettings, result, clock, dailyProgress, ops, last>>

\* writeJsonFile(QUESTION_ATTEMPTS_FILE, attempts); back in the route,
\* today = new Date() and getQuestionAttemptsByDate starts to read
HandlerWriteAttempts(h) ==
    /\ pc[h] = "writeAttempts"
    /\ questionAttempts' = Append(loc[h].attempts, loc[h].newAttempt)
    /\ exists' = exists \cup {QUESTION_ATTEMPTS_FILE}
    /\ pc' = [pc EXCEPT ![h] = "readToday"]
    /\ loc' = [loc EXCEPT ![h].today = clock]
    /\ UNCHANGED <<backend, subjects, userSettings, result, clock, dailyProgress, nextId, ops, last>>

\* the read of getQuestionAttemptsByDate and the sums of the route; then
\* updateDailyProgress starts to read daily-progress.json
HandlerReadToday(h) ==
    /\ pc[h] = "readToday"
    /\ pc' = [pc EXCEPT ![h] = "readProgress"]
    /\ loc' = [loc EXCEPT ![h].progressData =
                   PostProgressData(questionAttempts, "demo-user-id", loc[h].today)]
    /\ UNCHANGED <<backend, subjects, userSettings, result, clock, questionAttempts, dailyProgress, exists, nextId,
                   ops, last>>

\* readJsonFile(DAILY_PROGRESS_FILE) of updateDailyProgress
HandlerReadProgress(h) ==
    /\ pc[h] = "readProgress"
    /\ IF DAILY_PROGRESS_FILE \in exists
       THEN /\ pc' = [pc EXCEPT ![h] = "readExisting"]
            /\ loc' = [loc EXCEPT ![h].progressList = dailyProgress]
       ELSE /\ pc' = [pc EXCEPT ![h] = "defaultProgress"]
            /\ UNCHANGED loc
    /\ UNCHANGED <<backend, subjects, userSettings, result, clock, questionAttempts, dailyProgress, exists, nextId,
                   ops, last>>

HandlerDefaultProgress(h) ==
    /\ pc[h] = "defaultProgress"
    /\ dailyProgress' = <<>>
    /\ exists' = exists \cup {DAILY_PROGRESS_FILE}
    /\ pc' = [pc EXCEPT ![h] = "readExisting"]
    /\ loc' = [loc EXCEPT ![h].progressList = <<>>]
    /\ UNCHANGED <<backend, subjects, userSettings, result, clock, questionAttempts, nextId, ops, last>>

\* the read of getDailyProgress, then the branch of updateDailyProgress on
\* existing, up to its writeJsonFile
HandlerReadExisting(h) ==
    /\ pc[h] = "readExisting"
    /\ pc' = [pc EXCEPT ![h] = "writeProgress"]
    /\ loc' = [loc EXCEPT ![h].toWrite =
                   JsonStorage_updatedProgressList(loc[h].progressList,
                       JsonStorage_getDailyProgress(dailyProgress, "demo-user-id",
                                                    loc[h].progressData.date),
                       "demo-user-id", loc[h].progressData, nextId)]
    /\ nextId' = nextId + 1
    /\ UNCHANGED <<backend, subjects, userSettings, result, clock, questionAttempts, dailyProgress, exists, ops, last>>

\* writeJsonFile(DAILY_PROGRESS_FILE, progressList), then res.json(attempt)
HandlerWriteProgress(h) ==
    /\ pc[h] = "writeProgress"
    /\ dailyProgress' = loc[h].toWrite
    /\ exists' = exists \cup {DAILY_PROGRESS_FILE}
    /\ pc' = [pc EXCEPT ![h] = "done"]
    /\ loc' = [loc EXCEPT ![h].status = "200", ![h].attempts = <<>>,
                          ![h].progressList = <<>>, ![h].toWrite = <<>>]
    /\ UNCHANGED <<backend, subjects, userSettings, result, clock, questionAttempts, nextId, ops, last>>

RaceNext ==
    \/ RaceTick
    \/ \E h \in Handlers :
         \/ HandlerStart(h)
         \/ HandlerReadAttempts(h)
         \/ HandlerDefaultAttempts(h)
         \/ HandlerWriteAttempts(h)
         \/ HandlerReadToday(h)
         \/ HandlerReadProgress(h)
         \/ HandlerDefaultProgress(h)
         \/ HandlerReadExisting(h)
         \/ HandlerWriteProgress(h)

SpecRace == RaceInit /\ [][RaceNext]_vars

(***************************************************************************)
(* Properties.                                                             *)
(***************************************************************************)
\* the last operation logged an attempt
Logged == last.op = "create" /\ last.status \in {"logged", "200"}

\* ... and every clock read of it fell on one calendar day
LoggedWithinOneDay ==
    /\ Logged
    /\ Day(last.attemptDate) = Day(last.today)
    /\ Day(last.today) = Day(last.now)

\* the stored attempts of a user on a calendar day, and the stored
\* DailyProgress records of a user for a calendar day
AttemptsOn(userId, day) ==
    {i \in 1..Len(questionAttempts) :
        questionAttempts[i].userId = userId /\ Day(questionAttempts[i].attemptDate) = day}

ProgressOn(userId, day) ==
    {i \in 1..Len(dailyProgress) :
        dailyProgress[i].userId = userId /\ Day(dailyProgress[i].date) = day}

RECURSIVE SumOver(_, _)
SumOver(I, f) ==
    IF I = {} THEN 0
    ELSE LET i == CHOOSE j \in I : TRUE
         IN questionAttempts[i][f] + SumOver(I \ {i}, f)

\* C1: after createQuestionAttempt calls made one after another during a
\* day, the DailyProgress record of the user and day exists and its totals
\* are the sums over all stored attempts of the user on that day.
C1_DailyTotalsMatchAttempts ==
    LoggedWithinOneDay =>
        LET day == Day(last.attemptDate)
            I == AttemptsOn(DEMO_USER_ID, day)
        IN /\ ProgressOn(DEMO_USER_ID, day) # {}
           /\ \A k \in ProgressOn(DEMO_USER_ID, day) :
                /\ dailyProgress[k].totalQuestions = SumOver(I, "questionsAttempted")
                /\ dailyProgress[k].totalCorrect = SumOver(I, "correctAnswers")
                /\ dailyProgress[k].totalTimeSpent = SumOver(I, "timeSpent")

\* two attempts of one day, logged at different times of the day
C1_Witness ==
    /\ LoggedWithinOneDay
    /\ Cardinality(AttemptsOn(DEMO_USER_ID, Day(last.attemptDate))) = 2
    /\ \E i, j \in AttemptsOn(DEMO_USER_ID, Day(last.attemptDate)) :
         questionAttempts[i].attemptDate # questionAttempts[j].attemptDate
    /\ \E k \in ProgressOn(DEMO_USER_ID, Day(last.attemptDate)) :
         dailyProgress[k].totalQuestions = 35

\* C3: the store holds at most one DailyProgress record per user and
\* calendar date.
C3_OneProgressPerUserAndDay ==
    \A i, j \in 1..Len(dailyProgress) :
        (/\ dailyProgress[i].userId = dailyProgress[j].userId
         /\ Day(dailyProgress[i].date) = Day(dailyProgress[j].date)) => i = j

\* updateDailyProgress hit the record that logging an attempt had created
\* earlier the same day, at another time of day
C3_Witness ==
    /\ last.op = "update"
    /\ Len(dailyProgress) = 1
    /\ Len(questionAttempts) = 1
    /\ dailyProgress[1].userId = questionAttempts[1].userId
    /\ Day(dailyProgress[1].date) = Day(questionAttempts[1].attemptDate)
    /\ dailyProgress[1].date # questionAttempts[1].attemptDate
    /\ dailyProgress[1].totalQuestions = 30

\* the recomputation of the day of t for the demo user, at time t, as
\* createQuestionAttempt / the POST route perform it
Recompute(progressList, t, freshId) ==
    IF backend = "local"
    THEN LocalStorage_updateDailyProgressForAttempt(
             questionAttempts, progressList, DEMO_USER_ID, t, t, freshId)
    ELSE JsonStorage_updateDailyProgress(progressList, DEMO_USER_ID,
             PostProgressData(questionAttempts, DEMO_USER_ID, t), freshId)

\* the rest of the calendar day of the clock
RestOfToday == {t \in clock..MaxClock : Day(t) = Day(clock)}

\* C4 as stated: a second recomputation with the same attempts leaves the
\* stored records equal to the ones after the first.
C4_RecomputeLeavesRecordEqual ==
    \A t \in RestOfToday :
        LET first == Recompute(dailyProgress, clock, nextId)
        IN Recompute(first, t, nextId + 1) = first

\* C4, amended: a second recomputation on the same calendar day with the
\* same attempts keeps the number of records, leaves the records of other
\* users and days as they are, and keeps the id, the user, the totals, the
\* flags and the calendar day of the record of the day; its date is the
\* time of the second recomputation.
C4_RecomputeKeepsRecordUpToTime ==
    \A t \in RestOfToday :
        LET first == Recompute(dailyProgress, clock, nextId)
            second == Recompute(first, t, nextId + 1)
            ofToday(p) == p.userId = DEMO_USER_ID /\ Day(p.date) = Day(clock)
        IN /\ Len(second) = Len(first)
           /\ \A k \in 1..Len(first) :
                IF ofToday(first[k])
                THEN second[k] = [first[k] EXCEPT !.date = t]
                ELSE second[k] = first[k]
           /\ \E k \in 1..Len(first) : ofToday(first[k])

\* the day's record was written by logging an attempt and the time of day
\* has advanced since, so a recomputation now is a second one
C4_Witness ==
    /\ LoggedWithinOneDay
    /\ Day(clock) = Day(last.today)
    /\ clock > last.today
    /\ \E k \in ProgressOn(DEMO_USER_ID, Day(clock)) :
         /\ dailyProgress[k].date = last.today
         /\ dailyProgress[k].totalQuestions > 0

\* C5: a DailyProgress record written by logging an attempt has
\* targetAchieved exactly when totalQuestions >= 30, and streakDay equal to
\* targetAchieved.
C5_TargetAchievedFromThirty ==
    Logged =>
        /\ \E k \in 1..Len(dailyProgress) :
             dailyProgress[k].userId = DEMO_USER_ID /\ dailyProgress[k].date = last.today
        /\ \A k \in 1..Len(dailyProgress) :
             (dailyProgress[k].userId = DEMO_USER_ID /\ dailyProgress[k].date = last.today)
             => /\ dailyProgress[k].targetAchieved = (dailyProgress[k].totalQuestions >= 30)
                /\ dailyProgress[k].streakDay = dailyProgress[k].targetAchieved

\* a day of 35 questions marked achieved
C5_Witness ==
    /\ Logged
    /\ \E k \in 1..Len(dailyProgress) :
         /\ dailyProgress[k].userId = DEMO_USER_ID
         /\ dailyProgress[k].date = last.today
         /\ dailyProgress[k].totalQuestions = 35
         /\ dailyProgress[k].targetAchieved
         /\ dailyProgress[k].streakDay

\* getCurrentStreak of the backend in use, called now
getCurrentStreak(userId) ==
    IF backend = "local"
    THEN LocalStorage_getCurrentStreak(dailyProgress, userId, clock)
    ELSE JsonStorage_getCurrentStreak(dailyProgress, userId, clock)

\* the user has a DailyProgress record with streakDay = true for the day
StreakDay(userId, day) ==
    \E k \in ProgressOn(userId, day) : dailyProgress[k].streakDay

\* the number of consecutive calendar days, from today backward, that are
\* streak days
ConsecutiveStreakDays(userId) ==
    Cardinality({n \in 1..(Day(clock) + 1) :
                    \A d \in 0..(n - 1) : StreakDay(userId, Day(clock) - d)})

\* C6: getCurrentStreak is the number of consecutive calendar days, from
\* today backward, with a streakDay record, at any time of day.
C6_StreakCountsConsecutiveDays ==
    getCurrentStreak(DEMO_USER_ID) = ConsecutiveStreakDays(DEMO_USER_ID)

\* C7: getCurrentStreak is 0 when there is no streakDay record for today.
C7_NoStreakWithoutToday ==
    ~StreakDay(DEMO_USER_ID, Day(clock)) => getCurrentStreak(DEMO_USER_ID) = 0

\* the field constraints of an attempt, as the claim lists them
ViolatesFieldConstraint(body) ==
    \/ body.questionsAttempted < 1
    \/ body.correctAnswers < 0
    \/ body.timeSpent < 1
    \/ body.difficulty \notin Difficulties
    \/ body.subjectId = ""
    \/ body.topic = ""

\* C8: a POST /api/question-attempts whose body violates a field constraint
\* is answered with status 400 and leaves the stored attempts and the
\* stored DailyProgress records as they were.
C8_InvalidPostChangesNothing ==
    [][(/\ backend = "json"
        /\ last'.op = "create"
        /\ ViolatesFieldConstraint(last'.input))
       => (last'.status = "400" /\ UNCHANGED <<questionAttempts, dailyProgress>>)]_vars

\* a body with timeSpent 0 was rejected while attempts were stored
C8_Witness ==
    /\ backend = "json"
    /\ last.op = "create"
    /\ last.status = "400"
    /\ last.input.timeSpent = 0
    /\ Len(questionAttempts) > 0
    /\ Len(dailyProgress) > 0

\* C9: no stored attempt has more correct answers than questions attempted.
C9_CorrectNeverExceedsAttempted ==
    \A i \in 1..Len(questionAttempts) :
        questionAttempts[i].correctAnswers <= questionAttempts[i].questionsAttempted

\* C10: importQuestionAttempts keeps every stored attempt unchanged, adds
\* exactly the records of the batch whose id is not stored, skips the
\* others and completes without error.
C10_ImportMergesById ==
    [][(last'.op = "import" /\ ops' = ops + 1) =>
        LET S == questionAttempts
            R == questionAttempts'
            B == last'.batch
            fresh == {j \in 1..Len(B) : B[j].id \notin Ids(S)}
        IN /\ last'.status = "200"
           /\ Len(R) = Len(S) + Cardinality(fresh)
           /\ SubSeq(R, 1, Len(S)) = S
           /\ \A k \in (Len(S) + 1)..Len(R) : \E j \in fresh : R[k] = B[j]
           /\ \A j \in fresh : \E k \in (Len(S) + 1)..Len(R) : R[k] = B[j]
           /\ (fresh = {} => R = S)]_vars

\* a batch of an edited copy of a stored attempt and a new attempt: the
\* copy was skipped, the new attempt added
C10_Witness ==
    /\ last.op = "import"
    /\ Len(last.batch) = 2
    /\ \E j \in 1..2 : \E i \in 1..Len(questionAttempts) :
         /\ last.batch[j].id = questionAttempts[i].id
         /\ last.batch[j] # questionAttempts[i]
    /\ \E j \in 1..2 : \E i \in 1..Len(questionAttempts) :
         last.batch[j] = questionAttempts[i]

\* C2: after two concurrent POST /api/question-attempts of one day have
\* completed, the day's DailyProgress record exists and its totals are the
\* sums over both new attempts and the earlier attempts of the day.
C2_ConcurrentPostsKeepTotals ==
    (/\ \A h \in Handlers : pc[h] = "done" /\ loc[h].status = "200"
     /\ \A h \in Handlers : Day(loc[h].newAttempt.attemptDate) = 0 /\ Day(loc[h].today) = 0)
    => LET earlier == {i \in 1..Len(questionAttempts) : questionAttempts[i] = EarlierAttempt}
           new(f) == loc[1].newAttempt[f] + loc[2].newAttempt[f]
       IN /\ ProgressOn(DEMO_USER_ID, 0) # {}
          /\ \A k \in ProgressOn(DEMO_USER_ID, 0) :
               /\ dailyProgress[k].totalQuestions =
                    SumOver(earlier, "questionsAttempted") + new("questionsAttempted")
               /\ dailyProgress[k].totalCorrect =
                    SumOver(earlier, "correctAnswers") + new("correctAnswers")
               /\ dailyProgress[k].totalTimeSpent =
                    SumOver(earlier, "timeSpent") + new("timeSpent")

\* C11: importing the export of all attempts into an empty store (no file,
\* or a file holding []) yields a store whose attempts have exactly the ids
\* of the exported ones.
C11_ExportImportRoundTrip ==
    backend = "json" =>
        LET exported == JsonStorage_getAllQuestionAttempts
        IN Ids(JsonStorage_importedAttempts(<<>>, exported)) = Ids(exported)

\* the export holds an attempt that was logged and one that was imported
C11_Witness ==
    /\ backend = "json"
    /\ \E i, j \in 1..Len(JsonStorage_getAllQuestionAttempts) :
         /\ questionAttempts[i].id < 100
         /\ questionAttempts[j].id > 100

\* C12: the attempt log is append-only: every stored QuestionAttempt is
\* still stored, with every field unchanged, after each later operation
\* (logging, import, updateDailyProgress, updateUserSettings, a query).
C12_AttemptLogAppendOnly ==
    [][\A i \in 1..Len(questionAttempts) :
          \E j \in 1..Len(questionAttempts') : questionAttempts'[j] = questionAttempts[i]]_vars

\* an attempt is stored and the operation after it was an import, an update
\* of the settings or a query
C12_Witness ==
    /\ Len(questionAttempts) > 0
    /\ ops = MaxOps
    /\ last.op \in {"import", "settings", "query"}

\* C13: updateUserSettings(userId, partial) on a user who has a settings
\* record keeps the id of the record and the stored value of every field
\* absent from partial, and replaces only the fields present in partial.
C13_UpdateUserSettingsMerges ==
    [][(last'.op = "settings" /\ ops' = ops + 1) =>
          LET userId == last'.input.userId
              partial == last'.input.settings
          IN \A i \in 1..Len(userSettings) :
                userSettings[i].userId = userId =>
                   /\ Len(userSettings') = Len(userSettings)
                   /\ userSettings'[i].id = userSettings[i].id
                   /\ \A k \in DOMAIN userSettings[i] :
                        userSettings'[i][k] =
                            IF k \in DOMAIN partial THEN partial[k] ELSE userSettings[i][k]]_vars

\* C14: getAllSubjects, getSubjectStats, getTopicStats, getDifficultyStats,
\* getWeeklyStats, getUserStats, getCurrentStreak and getProgressHistory are
\* pure reads: whatever the store holds when they are called, the subjects,
\* the attempts, the daily progress and the settings are the same after the
\* query as before it.
C14_QueriesArePureReads ==
    [][(last'.op = "query" /\ ops' = ops + 1) =>
          UNCHANGED <<subjects, questionAttempts, dailyProgress, userSettings>>]_vars

\* C15: getSubjectStats(userId) returns exactly one entry for each subject in
\* which the user has an attempt and none for another subject; the entry's
\* totalQuestions, totalCorrect and totalTime are the sums over the user's
\* attempts in the subject, its accuracy is 100 * totalCorrect /
\* totalQuestions rounded to the nearest integer and its avgTime is
\* totalTime / totalQuestions rounded to one decimal (counted in tenths), both
\* 0 when totalQuestions is 0.
C15_SubjectStatsExact ==
    (last.op = "query" /\ last.status = "getSubjectStats") =>
        LET ofUser(a) == a.userId = last.input.userId
            mine == SelectSeq(questionAttempts, ofUser)
            attempted == {mine[i].subjectId : i \in 1..Len(mine)}
            rounded(num, den, n) ==
                IF den = 0 THEN 0 ELSE (2 * n * num + den) \div (2 * den)
            exact(entry) ==
                LET inSubject(a) == a.subjectId = entry.subjectId
                    subjectAttempts == SelectSeq(mine, inSubject)
                    totalQuestions == SumOf(subjectAttempts, "questionsAttempted")
                    totalCorrect == SumOf(subjectAttempts, "correctAnswers")
                    totalTime == SumOf(subjectAttempts, "timeSpent")
                IN /\ {"totalQuestions", "totalCorrect", "totalTime", "accuracy",
                       "avgTime"} \subseteq DOMAIN entry
                   /\ entry.totalQuestions = totalQuestions
                   /\ entry.totalCorrect = totalCorrect
                   /\ entry.totalTime = totalTime
                   /\ entry.accuracy = rounded(totalCorrect, totalQuestions, 100)
                   /\ entry.avgTime = rounded(totalTime, totalQuestions, 10)
        IN /\ Len(result) = Cardinality(attempted)
           /\ {result[i].subjectId : i \in 1..Len(result)} = attempted
           /\ \A i \in 1..Len(result) : exact(result[i])

\* C16: getDifficultyStats(userId, subjectId) returns exactly three entries,
\* one each for Easy, Medium and Hard, whatever the store and the subjectId;
\* the totals of a level are the sums over the user's attempts of that
\* subject and difficulty, and a level without attempt has its totals, its
\* accuracy and its avgTime equal to 0.
C16_DifficultyStatsZeroFilled ==
    (last.op = "query" /\ last.status = "getDifficultyStats") =>
        /\ Len(result) = 3
        /\ \A level \in Difficulties :
             \E i \in 1..Len(result) :
                LET ofLevel(a) == /\ a.userId = last.input.userId
                                  /\ a.subjectId = last.input.subjectId
                                  /\ a.difficulty = level
                    group == SelectSeq(questionAttempts, ofLevel)
                    entry == result[i]
                IN /\ entry.difficulty = level
                   /\ entry.totalQuestions = SumOf(group, "questionsAttempted")
                   /\ entry.totalCorrect = SumOf(group, "correctAnswers")
                   /\ entry.totalTime = SumOf(group, "timeSpent")
                   /\ entry.attemptCount = Len(group)
                   /\ group = <<>> =>
                        /\ entry.totalQuestions = 0 /\ entry.totalCorrect = 0
                        /\ entry.totalTime = 0
                        /\ entry.accuracy = 0 /\ entry.avgTime = 0

\* a subject in which the user has two Medium attempts and one Hard attempt
\* and no Easy one
C16_Witness ==
    /\ last.op = "query"
    /\ last.status = "getDifficultyStats"
    /\ Len(result) = 3
    /\ \E i, j, k \in 1..Len(result) :
         /\ result[i].difficulty = "Medium" /\ result[i].attemptCount = 2
         /\ result[j].difficulty = "Hard" /\ result[j].totalQuestions > 0
         /\ result[k].difficulty = "Easy" /\ result[k].attemptCount = 0

\* C17: getQuestionAttemptsByDate(userId, date) returns exactly the attempts
\* of the user whose attemptDate is in the calendar day of the date argument,
\* whatever the date, the current day or another.
C17_AttemptsOfTheGivenDay ==
    (last.op = "query" /\ last.status = "getQuestionAttemptsByDate") =>
        LET ofDay == {i \in 1..Len(questionAttempts) :
                        /\ questionAttempts[i].userId = last.input.userId
                        /\ Day(questionAttempts[i].attemptDate) = Day(last.input.date)}
        IN /\ Len(result) = Cardinality(ofDay)
           /\ {result[i] : i \in 1..Len(result)} = {questionAttempts[i] : i \in ofDay}

\* C18: getQuestionAttemptsByUser(userId, limit) returns only attempts of the
\* user, sorted by attemptDate descending, and the limit most recent ones at
\* most; an omitted limit is 100, so that the result never has more than 100
\* entries.
C18_AttemptsOfUserLimited ==
    (last.op = "query" /\ last.status = "getQuestionAttemptsByUser") =>
        LET limit == IF last.input.limit = {} THEN 100
                     ELSE CHOOSE n \in last.input.limit : TRUE
            mine == {i \in 1..Len(questionAttempts) :
                       questionAttempts[i].userId = last.input.userId}
            returned == {result[i] : i \in 1..Len(result)}
        IN /\ \A i \in 1..Len(result) : result[i].userId = last.input.userId
           /\ \A i \in 1..(Len(result) - 1) :
                result[i].attemptDate >= result[i + 1].attemptDate
           /\ Len(result) = Min(limit, Cardinality(mine))
           /\ Cardinality(returned) = Len(result)
           /\ returned \subseteq {questionAttempts[i] : i \in mine}
           /\ \A i \in mine :
                questionAttempts[i] \notin returned =>
                   \A r \in returned : r.attemptDate >= questionAttempts[i].attemptDate

\* C19: getUserStats(userId) returns totalQuestions, totalCorrect and
\* totalTime equal to the sums over the stored attempts of the user, accuracy
\* equal to 100 * totalCorrect / totalQuestions rounded to the nearest
\* integer (0 without attempt), and a currentStreak field equal to what
\* getCurrentStreak(userId) returns in the same state.
C19_UserStatsExact ==
    (last.op = "query" /\ last.status = "getUserStats") =>
        LET ofUser(a) == a.userId = last.input.userId
            mine == SelectSeq(questionAttempts, ofUser)
            totalQuestions == SumOf(mine, "questionsAttempted")
            totalCorrect == SumOf(mine, "correctAnswers")
            streak == Answer(QueryArgs("getCurrentStreak", last.input.userId, "", {}, 0, 0),
                             {})
        IN /\ {"totalQuestions", "totalCorrect", "totalTime", "accuracy",
               "currentStreak"} \subseteq DOMAIN result
           /\ result.totalQuestions = totalQuestions
           /\ result.totalCorrect = totalCorrect
           /\ result.totalTime = SumOf(mine, "timeSpent")
           /\ result.accuracy =
                IF totalQuestions = 0 THEN 0
                ELSE (200 * totalCorrect + totalQuestions) \div (2 * totalQuestions)
           /\ result.currentStreak = streak

\* C20: getWeeklyStats(userId) returns exactly the DailyProgress records of
\* the user dated within the last 7 days (date >= now - 7 days) and no
\* others, in ascending order of date.
C20_WeeklyStatsLastSevenDays ==
    (last.op = "query" /\ last.status = "getWeeklyStats") =>
        LET weekly == {i \in 1..Len(dailyProgress) :
                         /\ dailyProgress[i].userId = last.input.userId
                         /\ dailyProgress[i].date >= last.now - 7 * TicksPerDay}
        IN /\ Len(result) = Cardinality(weekly)
           /\ {result[i].id : i \in 1..Len(result)} = {dailyProgress[i].id : i \in weekly}
           /\ \A i \in 1..Len(result) : \E j \in weekly :
                /\ dailyProgress[j].id = result[i].id
                /\ \A k \in 1..(i - 1) : \E l \in weekly :
                     /\ dailyProgress[l].id = result[k].id
                     /\ dailyProgress[l].date <= dailyProgress[j].date

\* C21: subject seeding happens once.  Initialization on an empty catalog
\* leaves exactly the 8 seed subjects, with pairwise distinct codes;
\* initialization on a catalog that is not empty leaves it unchanged, so
\* that the number of subjects never grows through repeated initialization.
C21_SeededOnce ==
    [][last'.op = "initializeSubjects" =>
          IF subjects = <<>>
          THEN /\ Len(subjects') = 8
               /\ \A i, j \in 1..Len(subjects') :
                    i # j => subjects'[i].code # subjects'[j].code
               /\ {subjects'[i].code : i \in 1..Len(subjects')} =
                    {"NSS", "ED", "AC", "DC", "CS", "COM", "EM", "MATH"}
          ELSE subjects' = subjects]_vars

\* the storage was started again after it had served requests
C21_Witness ==
    /\ last.op = "initializeSubjects"
    /\ ops > 0
    /\ Len(subjects) = 8

\* C22: logging an attempt recomputes the DailyProgress of the calendar day
\* of the new attempt's attemptDate: when the operation has completed, the
\* record of the user and that day exists and its totals include the new
\* attempt, also when midnight passes between the write of the attempt and
\* the recomputation.
C22_RecomputesDayOfAttempt ==
    (last.op = "create" /\ last.status \in {"logged", "200"}) =>
        LET day == Day(last.attemptDate)
            I == AttemptsOn(DEMO_USER_ID, day)
        IN /\ ProgressOn(DEMO_USER_ID, day) # {}
           /\ \A k \in ProgressOn(DEMO_USER_ID, day) :
                /\ dailyProgress[k].totalQuestions = SumOver(I, "questionsAttempted")
                /\ dailyProgress[k].totalCorrect = SumOver(I, "correctAnswers")
                /\ dailyProgress[k].totalTimeSpent = SumOver(I, "timeSpent")

\* C23: when two createQuestionAttempt calls of JsonStorage interleave
\* between the read of question-attempts.json and the write back, both new
\* attempts are in the stored log once both calls have completed.
C23_ConcurrentCreatesKeepBoth ==
    (\A h \in Handlers : pc[h] = "done" /\ loc[h].status = "200") =>
        \A h \in Handlers :
           \E i \in 1..Len(questionAttempts) : questionAttempts[i] = loc[h].newAttempt

\* C24: a failed POST /api/question-attempts is all-or-nothing: whenever the
\* handler answers 400 or 500, also when a storage call fails after the
\* attempt was created, the stored attempt log is the same as before the
\* request.
C24_FailedPostStoresNothing ==
    [][(last'.op = "create" /\ last'.status \in {"400", "500"} /\ ops' = ops + 1) =>
          questionAttempts' = questionAttempts]_vars

\* C25: whenever LocalStorage.createQuestionAttempt resolves and returns an
\* attempt, the attempt is in the stored log and getQuestionAttemptsByUser
\* returns it, also when the write to the browser storage fails.
C25_ReturnedAttemptIsStored ==
    (backend = "local" /\ last.op = "create" /\ last.status = "logged") =>
        LET listed == LocalStorage_getQuestionAttemptsByUser(questionAttempts,
                                                              DEMO_USER_ID, {})
            returned(a) == a = NewAttempt(a.id, DEMO_USER_ID, last.input, last.attemptDate)
        IN /\ \E i \in 1..Len(questionAttempts) : returned(questionAttempts[i])
           /\ \E i \in 1..Len(listed) : returned(listed[i])

\* C26: logging an attempt never lowers the streak: at a fixed clock time,
\* getCurrentStreak of the user right after a createQuestionAttempt with its
\* daily-progress update is at least its value right before, whatever the
\* store held.
C26_LoggingKeepsStreak ==
    [][(Logged' /\ ops' = ops + 1 /\ clock' = clock /\ last'.attemptDate = clock) =>
          getCurrentStreak(DEMO_USER_ID)' >= getCurrentStreak(DEMO_USER_ID)]_vars

\* C27: within one calendar day, once the DailyProgress record of the user
\* and day has targetAchieved = true, it has targetAchieved = true and
\* streakDay = true after every further step of the handlers that log
\* attempts that day, whether they run one after another or interleave.
C27_TargetStaysAchieved ==
    [][(/\ Day(clock') = Day(clock)
        /\ \E i \in ProgressOn(DEMO_USER_ID, Day(clock)) : dailyProgress[i].targetAchieved)
       => \A j \in 1..Len(dailyProgress') :
             (/\ dailyProgress'[j].userId = DEMO_USER_ID
              /\ Day(dailyProgress'[j].date) = Day(clock))
             => dailyProgress'[j].targetAchieved /\ dailyProgress'[j].streakDay]_vars

\* C28: the today summary is self-consistent in every reachable state, also
\* after an import of attempts dated today: its questionsToday and timeSpent
\* are the sums of questionsAttempted and timeSpent over the attempts of the
\* same response, and its accuracyRate is computed from those attempts.
C28_TodaySummaryConsistent ==
    last.op = "today" =>
        LET questions == SumOf(result.attempts, "questionsAttempted")
            correct == SumOf(result.attempts, "correctAnswers")
        IN /\ result.questionsToday = questions
           /\ result.timeSpent = SumOf(result.attempts, "timeSpent")
           /\ result.accuracyRate = Accuracy(correct, questions)

\* C29: attempt ids are unique in the stored attempt log in every state
\* reachable through createQuestionAttempt and importQuestionAttempts, also
\* when one import batch holds two records with the same id that is not yet
\* in the store.
C29_AttemptIdsUnique ==
    \A i, j \in 1..Len(questionAttempts) :
        questionAttempts[i].id = questionAttempts[j].id => i = j

\* C30: the analytics views account for every attempt: in every reachable
\* state the sum of totalQuestions over the entries of getSubjectStats(userId)
\* equals getUserStats(userId).totalQuestions, and for each subject the sum
\* of totalQuestions over getDifficultyStats(userId, subjectId) equals the sum
\* over getTopicStats(userId, subjectId).
C30_ViewsCountEveryAttempt ==
    \A userId \in Users :
        LET view(name, subjectId) == Answer(QueryArgs(name, userId, subjectId, {}, 0, 0), {})
            stored == {questionAttempts[i].subjectId : i \in 1..Len(questionAttempts)}
        IN /\ SumOf(view("getSubjectStats", ""), "totalQuestions")
                = view("getUserStats", "").totalQuestions
           /\ backend = "json" =>
                \A subjectId \in stored :
                    SumOf(view("getDifficultyStats", subjectId), "totalQuestions")
                        = SumOf(view("getTopicStats", subjectId), "totalQuestions")

====
